---- MODULE Spec2Model ----
(***************************************************************************)
(* The user bot of naseh42/hiddy: the callback handlers of                 *)
(* UserBot/bot.py that buy, try and renew a subscription for one chat      *)
(* user, over the local store (Database/dbManager.py) and the remote panel *)
(* (Utils/api.py).                                                         *)
(*                                                                         *)
(* One handler invocation is a process p with a program counter pc[p] and  *)
(* a frame fr[p] of its local variables.  A handler that makes several     *)
(* external calls is one action per call, each call's outcome (taken       *)
(* effect or failed) chosen by the environment.                            *)
(*                                                                         *)
(* Four facts of the source shape the model:                               *)
(*  - select_best_server_for_user calls USERS_DB.find_order(server_id=..), *)
(*    a keyword find_order does not have (utils.py:869, dbManager.py:699); *)
(*    the TypeError is caught at utils.py:903 and the selector returns     *)
(*    None for every non-empty server list;                                *)
(*  - UserBot/bot.py never binds the name utils, so the handlers           *)
(*    renewal_subscription (line 589) and confirm_renewal_from_wallet      *)
(*    (line 672) raise NameError there, caught at line 935;                *)
(*  - the results of the wallet writes and of the panel delete in          *)
(*    confirm_buy_plan are not looked at (lines 379, 392, 407, 408);       *)
(*  - the gateway's edit_user and edit_payment bind the row id to          *)
(*    updated_at and the timestamp to the WHERE clause (dbManager.py       *)
(*    412-417, 821-826): the UPDATE matches no row and False is returned,  *)
(*    so no wallet write and no payment approval takes effect.             *)
(*                                                                         *)
(* The session dictionary buy_subscription_dict is drawn in Init from      *)
(* every value of its type: confirm_buy_plan is checked for each session   *)
(* it can be called with.  Of the handlers only users_bot_buy_subscription *)
(* stores a server_id (line 297), and only when the selector returns a     *)
(* server.                                                                 *)
(*                                                                         *)
(* Utils/coupons.py, Utils/affiliates.py and the selector of Utils/utils.py*)
(* are checked under specifications of their own (PureSpec, LibSpec,       *)
(* SelectorSpec), each function applied to arguments drawn from bounded    *)
(* sets.  Two more facts of the source shape them:                         *)
(*  - the gateway class UserDBManager defines no find_coupon, no           *)
(*    find_coupon_usage and no find_referral; the calls of coupons.py:161, *)
(*    coupons.py:248 and affiliates.py:56 raise AttributeError, caught in  *)
(*    the calling function.  Nor does it define add_coupon_usage,          *)
(*    edit_coupon (coupons.py:337, 356) or add_affiliate_commission        *)
(*    (affiliates.py:153);                                                 *)
(*  - percentages are taken as int(amount * (value / 100.0)), in binary    *)
(*    floating point, modelled digit by digit.                             *)
(*                                                                         *)
(* CouponSpec runs coupons.create_coupon and coupons.use_coupon over the   *)
(* coupon tables.  LedgerSpec adds to the user bot the two other writers   *)
(* of the wallet, the admin bot's payment approval (AdminBot/bot.py) and   *)
(* affiliates.apply_commission, one request at a time; the payments table  *)
(* is drawn in its Init, as neither bot inserts a row (add_payment is      *)
(* called with keywords it does not have, UserBot/bot.py:882,              *)
(* payments_online.py:85).  RaceSpec runs two purchase confirmations side  *)
(* by side, as the two worker threads of telebot.TeleBot do.               *)
(***************************************************************************)
EXTENDS Integers, Sequences, FiniteSets, TLC

\* ---------------------------------------------------------------- bounds
MaxBalance == 3
MaxUuid == 2
Procs == {1}

\* ------------------------------------------------------ program constants
\* int_config defaults
advanced_renewal_days == 3
advanced_renewal_usage == 3

\* ------------------------------------------------------------- the stores
\* plans table rows (id -> row); size_gb and days as the panel receives them
Plans ==
    [i \in {1, 2} |->
        IF i = 1 THEN [price |-> 1, days |-> 3, size_gb |-> 1, status |-> TRUE]
                 ELSE [price |-> 2, days |-> 5, size_gb |-> 2, status |-> TRUE]]

\* plan ids a callback can carry: the rows and one id with no row
PlanArgs == {1, 2, 3}

\* uuid of the subscription the user already holds (an order row of Init)
SubUuid == 1

\* uuids a renewal callback can carry: the held one and an unknown one
UuidArgs == {SubUuid, 9}

\* what test_subscriptions can hold at start: nothing, or one trial record
\* of an earlier request (its uuid unlike any other)
TrialTables == {{}, {8}}

\* server lists select_servers can return
ServerLists ==
    { <<>>,
      << [id |-> 1, status |-> TRUE, user_limit |-> 0] >>,
      << [id |-> 1, status |-> FALSE, user_limit |-> 0] >> }

\* what the panel can report for the held subscription: days and GB left of a
\* 10-day, 10-GB package, above and below the thresholds and exhausted
SubStates ==
    { [remaining_day |-> d, remaining_usage_GB |-> u, package_days |-> 10,
       usage_limit_GB |-> 10] :
      <<d, u>> \in {<<10, 10>>, <<2, 10>>, <<10, 2>>, <<0, 10>>} }

\* the settings the admin can have stored: each renewal method with the
\* features on (the bool_config defaults), and the features switched off
Configs ==
    { [renewal_method |-> m, buy_subscription_status |-> TRUE,
       test_subscription |-> TRUE] : m \in 1..3 }
    \cup { [renewal_method |-> 1, buy_subscription_status |-> FALSE,
            test_subscription |-> FALSE] }

VARIABLES
    balance,                 \* users.balance of the chat user
    orders,                  \* rows of the orders table
    tests,                   \* rows of test_subscriptions (their uuids)
    panel,                   \* uuids that exist on the remote panel
    sub,                     \* what the panel reports for SubUuid
    servers,                 \* rows of the servers table, in row order
    settings,                \* the merged settings map
    buy_subscription_dict,   \* the user's entry of the global dict
    renew_subscription_dict, \* the user's entry: stored uuid, 0 = no entry
    nextUuid,                \* the uuid the panel hands out next
    pc,                      \* position of each handler invocation
    fr,                      \* local variables of each handler invocation
    referrals,               \* rows of the referrals table, in row order
    coupons,                 \* rows of the coupons table, in row order
    coupon_usage,            \* rows <<coupon_id, user_id>> of coupon_usage, in row order
    ret,                     \* the last call of a library function
    payments                 \* rows of the payments table, in row order

vars == << balance, orders, tests, panel, sub, servers, settings,
           buy_subscription_dict, renew_subscription_dict, nextUuid, pc, fr,
           referrals, coupons, coupon_usage, ret, payments >>

\* what Utils/affiliates.py and Utils/coupons.py work on; the bots' handlers
\* call neither module
lib == << referrals, coupons, coupon_usage, ret >>

\* what the bot's handlers work on
bot == << balance, orders, tests, panel, sub, servers, settings,
          buy_subscription_dict, renew_subscription_dict, nextUuid, pc, fr >>

store == << balance, orders, tests, panel, sub, servers, settings, nextUuid >>

\* no entry for the user: .get(chat_id, {}) then yields None for both keys
NoSession == [present |-> FALSE, server_id |-> 0, plan_id |-> 0]

\* every value the entry can have: a server id or none, a plan id or none
Sessions ==
    {NoSession} \cup
    [present : {TRUE}, server_id : {0, 1}, plan_id : {0} \cup PlanArgs]

\* the entries of Init: the plan id is stored later, by users_bot_plan_info
InitSessions == {NoSession, [present |-> TRUE, server_id |-> 1, plan_id |-> 0]}

BlankFrame ==
    [kind |-> "none", plan_id |-> 0, server_id |-> 0, user_balance |-> 0,
     plan_price |-> 0, uuid |-> 0, log |-> <<>>, msg |-> "none", needed |-> 0,
     pre_balance |-> 0, pre_orders |-> {}, pre_panel |-> {}, pre_tests |-> {},
     pre_session |-> NoSession, overlap |-> FALSE]

Ev(e, ok, arg) == [ev |-> e, ok |-> ok, arg |-> arg]

\* no library function has been called
NoCall == [fn |-> "none", args |-> <<>>, result |-> 0, calls |-> <<>>,
           pre |-> <<>>]

\* empty referral, coupon and payment tables, no call made
NoLibrary ==
    /\ referrals = <<>>
    /\ coupons = <<>>
    /\ coupon_usage = <<>>
    /\ ret = NoCall
    /\ payments = <<>>

\* ------------------------------------------------- the persistence gateway
\* the UPDATE with its values in the order of its placeholders: the new
\* balance is stored unless an sqlite3.Error is raised
edit_user_bound_in_order(bal, new, ok) ==
    [balance |-> IF ok THEN new ELSE bal, status |-> ok]

\* UserDBManager.edit_user(balance=new): line 414 appends the telegram_id to
\* the values before line 416 appends the timestamp, so the statement of
\* line 415 sets updated_at to the telegram_id and looks for the row whose
\* telegram_id is the timestamp.  No row matches (rowcount 0, line 419) or
\* an sqlite3.Error is caught (~ok): the row is untouched and False returned
edit_user(bal, new, ok) == [balance |-> bal, status |-> FALSE]

\* UserDBManager.add_order: the INSERT takes effect or returns False
add_order(rows, row, ok) == IF ok THEN rows \cup {row} ELSE rows

\* UserDBManager.find_plan(id=..): the rows with that id, none = None
find_plan(id) == IF id \in DOMAIN Plans THEN {id} ELSE {}

\* UserDBManager.find_server(id=..)
find_server(id) == {i \in 1..Len(servers) : servers[i].id = id}

\* the lookup answering None whatever the table holds
find_test_subscription_blind(rows) == FALSE

\* UserDBManager.find_test_subscription(telegram_id=..): truthy iff a row exists
find_test_subscription(rows) == rows # {}

\* ------------------------------------------------------- the panel client
\* api.create_user: the uuid of the created record, 0 for None
create_user(ok) == IF ok THEN nextUuid ELSE 0

\* api.delete_user: the record is gone when the DELETE succeeds
delete_user(remote, uuid, ok) == IF ok THEN remote \ {uuid} ELSE remote

\* --------------------------------------------------------- the selector
\* what the selector's loop does on its first server: it calls
\* USERS_DB.find_order(server_id=..), find_order takes id and telegram_id
\* only, the TypeError is caught and the except clause returns None (0)
selector_first_iteration == 0

\* the selector taking the first row of the table, its status unread
select_first_server == IF Len(servers) = 0 THEN 0 ELSE servers[1].id

\* select_best_server_for_user: 0 for None.  An empty list returns None at
\* once; otherwise the first iteration ends the call before a server is scored
select_best_server_for_user ==
    IF Len(servers) = 0 THEN 0 ELSE selector_first_iteration

\* ------------------------------------------- binary floating point
\* value / 100.0 and amount * (..) are IEEE 754 double operations and int()
\* truncates.  A double is kept as its binary digits, most significant
\* first, and worked on in limbs of LimbBits digits, so that every number
\* the model handles stays small.
MantissaBits == 53

\* integer digits kept in front of a product
CarryBits == 9

LimbBits == 15

\* digits of every number: CarryBits + 1 before the point, the rest after
WideBits == 5 * LimbBits

\* what is left of rem/100 after k limbs of digits, as a numerator over 100
RECURSIVE RemAfterLimbs(_, _)
RemAfterLimbs(rem, k) ==
    IF k = 0 THEN rem
    ELSE (RemAfterLimbs(rem, k - 1) * 2^LimbBits) % 100

\* digit i after the point of rem/100, for 0 <= rem < 100
FracBit(rem, i) ==
    LET k == (i - 1) \div LimbBits
        j == ((i - 1) % LimbBits) + 1
    IN ((RemAfterLimbs(rem, k) * 2^j) \div 100) % 2

\* what is left of rem/100 after n digits, as a numerator over 100
FracRem(rem, n) ==
    (RemAfterLimbs(rem, n \div LimbBits) * 2^(n % LimbBits)) % 100

\* position of the first one digit, 0 when there is none
FirstOne(bits) ==
    LET ones == {i \in 1..Len(bits) : bits[i] = 1}
    IN IF ones = {} THEN 0 ELSE CHOOSE i \in ones : \A j \in ones : i <= j

\* the digits plus one unit in the last place (a zero digit is in front)
Incremented(bits) ==
    LET zeros == {i \in 1..Len(bits) : bits[i] = 0}
        k == CHOOSE i \in zeros : \A j \in zeros : j <= i
    IN [i \in 1..Len(bits) |-> IF i < k THEN bits[i] ELSE IF i = k THEN 1 ELSE 0]

\* round to nearest, ties to even: the digits kept, given the first digit
\* dropped and whether anything nonzero follows it
RoundedToEven(kept, round_bit, sticky) ==
    IF round_bit = 1 /\ (sticky \/ kept[Len(kept)] = 1)
    THEN Incremented(kept) ELSE kept

\* value / 100.0 for 0 < value < 100: the digits after the point of the
\* double, a zero in front, the last digit rounded
float_div_100(value) ==
    LET z == FirstOne([i \in 1..LimbBits |-> FracBit(value, i)]) - 1
        n == z + MantissaBits
        kept == [i \in 1..(n + 1) |-> IF i = 1 THEN 0 ELSE FracBit(value, i - 1)]
        rest == FracRem(value, n)
    IN RoundedToEven(kept, IF 2 * rest >= 100 THEN 1 ELSE 0,
                     (2 * rest) % 100 # 0)

\* the integer the digits stand for
RECURSIVE BitsValue(_)
BitsValue(bits) ==
    IF bits = <<>> THEN 0
    ELSE 2 * BitsValue(SubSeq(bits, 1, Len(bits) - 1)) + bits[Len(bits)]

\* WideBits digits as limbs, and limbs as digits
Limbs(bits) ==
    [k \in 1..(Len(bits) \div LimbBits) |->
        BitsValue(SubSeq(bits, (k - 1) * LimbBits + 1, k * LimbBits))]

LimbDigits(limbs) ==
    [i \in 1..(Len(limbs) * LimbBits) |->
        (limbs[((i - 1) \div LimbBits) + 1]
            \div 2^(LimbBits - 1 - ((i - 1) % LimbBits))) % 2]

\* limbs times a small integer, limb by limb from the last, the carry
\* passed on (the front limb has room for it)
RECURSIVE TimesInt(_, _, _)
TimesInt(limbs, a, carry) ==
    IF limbs = <<>> THEN <<>>
    ELSE LET n == Len(limbs)
             t == limbs[n] * a + carry
         IN Append(TimesInt(SubSeq(limbs, 1, n - 1), a, t \div 2^LimbBits),
                   t % 2^LimbBits)

\* the digits rounded to MantissaBits significant digits, zeros after them
RoundedDouble(bits) ==
    LET q == FirstOne(bits)
        last == q + MantissaBits - 1
        n == Len(bits)
    IN IF q = 0 \/ last >= n THEN bits
       ELSE RoundedToEven(SubSeq(bits, 1, last), bits[last + 1],
                          \E j \in (last + 2)..n : bits[j] = 1)
            \o [j \in 1..(n - last) |-> 0]

\* int(amount * (value / 100.0)) for 0 <= value <= 100 and
\* 0 <= amount < 2^CarryBits: the quotient rounded, the product rounded,
\* the digits after the point cut off
int_of_percent(amount, value) ==
    IF value = 0 \/ amount = 0 THEN 0
    ELSE IF value = 100 THEN amount
    ELSE LET d == float_div_100(value)
             wide == [i \in 1..WideBits |->
                         IF i <= CarryBits \/ i > CarryBits + Len(d) THEN 0
                         ELSE d[i - CarryBits]]
             product == RoundedDouble(LimbDigits(TimesInt(Limbs(wide), amount, 0)))
         IN BitsValue(SubSeq(product, 1, CarryBits + 1))

\* ------------------------------------------------------ names of bot.py
\* the name bound, as an import of the module Utils.utils would bind it
utils_bound == "bound"

\* UserBot/bot.py imports names from Utils.utils but never binds the name
\* utils itself: evaluating utils.non_order_user_info raises NameError,
\* which callback_query catches and answers with UNKNOWN_ERROR
utils_lookup == "NameError"

\* ------------------------------------------------------------- frames
Idle(p) == pc[p] \in {"idle", "done"}

\* requests are handled one at a time: a handler starts when none is running
CanStart(p) == \A q \in Procs : Idle(q)

\* a new frame for p; the frame of a handler that has returned stays until
\* its worker starts the next one.  overlap notes that another handler has
\* passed its balance check and not yet written its debit
Start(p, kind) ==
    [BlankFrame EXCEPT !.kind = kind, !.pre_balance = balance,
                       !.pre_orders = orders, !.pre_panel = panel,
                       !.pre_tests = tests,
                       !.pre_session = buy_subscription_dict,
                       !.overlap = \E q \in DOMAIN pc \ {p} :
                                       pc[q] = "buy_debit"]

Frames(p, f) == [fr EXCEPT ![p] = f]

Pcs(p, where) == [pc EXCEPT ![p] = where]

\* the handler returns after telling the user m
Return(p, f, m) ==
    /\ fr' = Frames(p, [f EXCEPT !.msg = m])
    /\ pc' = Pcs(p, "done")

Logged(f, e) == [f EXCEPT !.log = Append(f.log, e)]

TypeOK ==
    /\ balance \in Int
    /\ nextUuid \in (SubUuid + 1)..(MaxUuid + 1)
    /\ buy_subscription_dict \in Sessions
    /\ renew_subscription_dict \in {0} \cup UuidArgs
    /\ pc \in [Procs -> {"idle", "done", "buy_debit", "buy_create", "buy_rollback",
                         "buy_add_order", "buy_delete", "buy_restore", "buy_success"}]

Init ==
    /\ balance \in 0..MaxBalance
    /\ orders = {[uuid |-> SubUuid, plan_id |-> 1, server_id |-> 1, price |-> 1]}
    /\ tests \in TrialTables
    /\ panel = {SubUuid} \cup tests
    /\ sub \in SubStates
    /\ servers \in ServerLists
    /\ settings \in Configs
    /\ buy_subscription_dict \in InitSessions
    /\ renew_subscription_dict = 0
    /\ nextUuid = SubUuid + 1
    /\ pc = [p \in Procs |-> "idle"]
    /\ fr = [p \in Procs |-> BlankFrame]
    /\ NoLibrary

\* ------------------------------------------- users_bot_buy_subscription
users_bot_buy_subscription(p) ==
    /\ CanStart(p)
    /\ LET f == Start(p, "buy_menu")
           selected_server == select_best_server_for_user
       IN IF ~settings.buy_subscription_status
          THEN /\ Return(p, f, "FEATUR_UNAVAILABLE")
               /\ UNCHANGED buy_subscription_dict
          ELSE IF selected_server = 0
          THEN /\ Return(p, f, "SERVER_IS_FULL")
               /\ UNCHANGED buy_subscription_dict
          ELSE /\ buy_subscription_dict' =
                      [present |-> TRUE, server_id |-> selected_server, plan_id |-> 0]
               /\ Return(p, f, "PLANS_LIST")
    /\ UNCHANGED << store, renew_subscription_dict >>
    /\ UNCHANGED << lib, payments >>

\* ------------------------------------------------- users_bot_plan_info
users_bot_plan_info(p, value) ==
    /\ CanStart(p)
    /\ buy_subscription_dict' =
           [present |-> TRUE, server_id |-> buy_subscription_dict.server_id,
            plan_id |-> value]
    /\ Return(p, Start(p, "plan_info"), "BUY_SUBSCRIPTION_CONFIRM")
    /\ UNCHANGED << store, renew_subscription_dict >>
    /\ UNCHANGED << lib, payments >>

\* ---------------------------------------------------- confirm_buy_plan
\* the purchase goes on whatever the balance is
balance_check_skipped(user_balance, plan_price) == FALSE

\* line 368
not_enough_balance(user_balance, plan_price) == user_balance < plan_price

\* lines 332-375: the session check, the plan, server and user lookups and
\* the balance check; on a sufficient balance the handler goes on to the debit
confirm_buy_plan_checks(p, value) ==
    /\ nextUuid <= MaxUuid
    /\ LET server_id == buy_subscription_dict.server_id
           plan_id_stored == buy_subscription_dict.plan_id
           f0 == [Start(p, "buy") EXCEPT !.plan_id = value,
                                         !.server_id = server_id]
       IN IF server_id = 0 \/ plan_id_stored = 0 \/ plan_id_stored # value
          THEN Return(p, f0, "UNKNOWN_ERROR")
          ELSE IF find_plan(value) = {}
          THEN Return(p, f0, "PLAN_NOT_FOUND")
          ELSE IF find_server(server_id) = {}
          THEN Return(p, f0, "SERVER_NOT_FOUND")
          ELSE LET f == [f0 EXCEPT !.user_balance = balance,
                                   !.plan_price = Plans[value].price]
               IN IF not_enough_balance(f.user_balance, f.plan_price)
                  THEN Return(p, [f EXCEPT !.needed = f.plan_price - f.user_balance],
                              "NOT_ENOUGH_BALANCE")
                  ELSE /\ fr' = Frames(p, [f EXCEPT !.msg = "WAIT"])
                       /\ pc' = Pcs(p, "buy_debit")
    /\ UNCHANGED << store, buy_subscription_dict, renew_subscription_dict >>
    /\ UNCHANGED << lib, payments >>

\* the handler, its requests taken one at a time
confirm_buy_plan(p, value) ==
    /\ CanStart(p)
    /\ confirm_buy_plan_checks(p, value)

\* the price taken off the stored balance by the statement itself
debit_in_place(stored, user_balance, plan_price, ok) ==
    [balance |-> stored - plan_price, status |-> TRUE]

\* lines 378-379: the balance read at line 363 less the price is written
debit(stored, user_balance, plan_price, ok) ==
    edit_user(stored, user_balance - plan_price, ok)

\* lines 377-379: the debit write; its result is dropped
buy_debit(p, ok) ==
    /\ pc[p] = "buy_debit"
    /\ LET w == debit(balance, fr[p].user_balance, fr[p].plan_price, ok)
       IN /\ balance' = w.balance
          /\ fr' = [fr EXCEPT ![p] = Logged(@, Ev("debit", w.status,
                                       fr[p].user_balance - fr[p].plan_price))]
    /\ pc' = [pc EXCEPT ![p] = "buy_create"]
    /\ UNCHANGED << orders, tests, panel, sub, servers, settings, nextUuid,
                    buy_subscription_dict, renew_subscription_dict >>
    /\ UNCHANGED << lib, payments >>

\* lines 381-390: the panel create call and the test of its uuid
buy_create(p, ok) ==
    /\ pc[p] = "buy_create"
    /\ LET uuid == create_user(ok)
       IN /\ panel' = IF ok THEN panel \cup {uuid} ELSE panel
          /\ nextUuid' = IF ok THEN nextUuid + 1 ELSE nextUuid
          /\ fr' = [fr EXCEPT ![p] = Logged([@ EXCEPT !.uuid = uuid],
                                            Ev("create", ok, uuid))]
          /\ pc' = [pc EXCEPT ![p] = IF uuid = 0 THEN "buy_rollback"
                                     ELSE "buy_add_order"]
    /\ UNCHANGED << balance, orders, tests, sub, servers, settings,
                    buy_subscription_dict, renew_subscription_dict >>
    /\ UNCHANGED << lib, payments >>

\* lines 391-394: no uuid: the wallet is written back, the user told
buy_rollback(p, ok) ==
    /\ pc[p] = "buy_rollback"
    /\ LET w == edit_user(balance, fr[p].user_balance, ok)
       IN /\ balance' = w.balance
          /\ Return(p, Logged(fr[p], Ev("recredit", w.status, fr[p].user_balance)),
                    "UNKNOWN_ERROR")
    /\ UNCHANGED << orders, tests, panel, sub, servers, settings, nextUuid,
                    buy_subscription_dict, renew_subscription_dict >>
    /\ UNCHANGED << lib, payments >>

\* the failed insert followed by the wallet write alone
AfterOrderFailed_no_delete == "buy_restore"

\* the step that follows a failed order insert (line 407)
AfterOrderFailed == "buy_delete"

\* lines 396-405: the order insert and the test of its result
buy_add_order(p, ok) ==
    /\ pc[p] = "buy_add_order"
    /\ LET row == [uuid |-> fr[p].uuid, plan_id |-> fr[p].plan_id,
                   server_id |-> fr[p].server_id,
                   price |-> fr[p].plan_price]
       IN orders' = add_order(orders, row, ok)
    /\ fr' = [fr EXCEPT ![p] = Logged(@, Ev("order", ok, fr[p].uuid))]
    /\ pc' = [pc EXCEPT ![p] = IF ok THEN "buy_success" ELSE AfterOrderFailed]
    /\ UNCHANGED << balance, tests, panel, sub, servers, settings, nextUuid,
                    buy_subscription_dict, renew_subscription_dict >>
    /\ UNCHANGED << lib, payments >>

\* line 407: the panel delete of the created uuid; its result is dropped
buy_delete(p, ok) ==
    /\ pc[p] = "buy_delete"
    /\ panel' = delete_user(panel, fr[p].uuid, ok)
    /\ fr' = [fr EXCEPT ![p] = Logged(@, Ev("delete", ok, fr[p].uuid))]
    /\ pc' = [pc EXCEPT ![p] = "buy_restore"]
    /\ UNCHANGED << balance, orders, tests, sub, servers, settings, nextUuid,
                    buy_subscription_dict, renew_subscription_dict >>
    /\ UNCHANGED << lib, payments >>

\* lines 408-410: the wallet is written back, the user told
buy_restore(p, ok) ==
    /\ pc[p] = "buy_restore"
    /\ LET w == edit_user(balance, fr[p].user_balance, ok)
       IN /\ balance' = w.balance
          /\ Return(p, Logged(fr[p], Ev("recredit", w.status, fr[p].user_balance)),
                    "UNKNOWN_ERROR")
    /\ UNCHANGED << orders, tests, panel, sub, servers, settings, nextUuid,
                    buy_subscription_dict, renew_subscription_dict >>
    /\ UNCHANGED << lib, payments >>

\* lines 412-425: the success message and the session entry deleted
buy_success(p) ==
    /\ pc[p] = "buy_success"
    /\ buy_subscription_dict' = NoSession
    /\ Return(p, fr[p], "SUCCESSFUL_PURCHASE")
    /\ UNCHANGED << store, renew_subscription_dict >>
    /\ UNCHANGED << lib, payments >>

\* ------------------------------------------------- users_bot_free_test
\* lines 523-550, reached only with a selected server: the panel create,
\* the test_subscriptions insert and the panel delete when the insert fails
free_test_provision(p, f, okc, oka, okd) ==
    LET uuid == create_user(okc)
    IN IF uuid = 0
       THEN /\ Return(p, Logged(f, Ev("create", FALSE, 0)), "UNKNOWN_ERROR")
            /\ UNCHANGED << tests, panel, nextUuid >>
       ELSE /\ nextUuid' = nextUuid + 1
            /\ tests' = IF oka THEN tests \cup {uuid} ELSE tests
            /\ panel' = IF oka THEN panel \cup {uuid}
                        ELSE delete_user(panel \cup {uuid}, uuid, okd)
            /\ Return(p, Logged(f, Ev("create", TRUE, uuid)),
                      IF oka THEN "GET_FREE_CONFIRMED" ELSE "UNKNOWN_ERROR")

\* lines 501-521: the feature switch, the one-trial gate and the selector
users_bot_free_test(p) ==
    /\ CanStart(p)
    /\ LET f == Start(p, "test")
           selected_server == select_best_server_for_user
       IN IF ~settings.test_subscription
          THEN /\ Return(p, f, "FEATUR_UNAVAILABLE")
               /\ UNCHANGED << tests, panel, nextUuid >>
          ELSE IF find_test_subscription(tests)
          THEN /\ Return(p, f, "ALREADY_RECEIVED_FREE_TEST")
               /\ UNCHANGED << tests, panel, nextUuid >>
          ELSE IF selected_server = 0
          THEN /\ Return(p, f, "SERVER_IS_FULL")
               /\ UNCHANGED << tests, panel, nextUuid >>
          ELSE \E okc, oka, okd \in BOOLEAN :
                  free_test_provision(p, f, okc, oka, okd)
    /\ UNCHANGED << balance, orders, sub, servers, settings,
                    buy_subscription_dict, renew_subscription_dict >>
    /\ UNCHANGED << lib, payments >>

\* ------------------------------------------------ renewal_subscription
\* lines 583-613: the uuid is stored, then the subscription lookup reads
\* utils (line 589).  Were utils bound, the lookups of lines 602-610 answer
\* UNKNOWN_ERROR or line 613 reads the local name settings, unbound in this
\* branch: every path answers UNKNOWN_ERROR with the uuid stored
renewal_subscription(p, uuid) ==
    /\ CanStart(p)
    /\ renew_subscription_dict' = uuid
    /\ utils_lookup \in {"NameError", "bound"}
    /\ Return(p, [Start(p, "renewal_select") EXCEPT !.uuid = uuid], "UNKNOWN_ERROR")
    /\ UNCHANGED << store, buy_subscription_dict >>
    /\ UNCHANGED << lib, payments >>

\* ----------------------------------------- confirm_renewal_from_wallet
\* lines 673-721, which run only with the name utils bound: the held
\* subscription and its server are looked up, the panel asked for it (oki),
\* the balance checked and the debit written; line 721 then reads the local
\* name settings, unbound in this branch, and the NameError is answered
\* with UNKNOWN_ERROR before any panel update
renewal_from_wallet(p, f, oki, okd) ==
    LET plan_price == Plans[f.plan_id].price
        w == debit(balance, balance, plan_price, okd)
    IN IF f.uuid # SubUuid \/ find_server(1) = {} \/ ~oki
       THEN /\ Return(p, f, "UNKNOWN_ERROR")
            /\ UNCHANGED balance
       ELSE IF not_enough_balance(balance, plan_price)
       THEN /\ Return(p, [f EXCEPT !.needed = plan_price - balance],
                      "NOT_ENOUGH_BALANCE")
            /\ UNCHANGED balance
       ELSE /\ balance' = w.balance
            /\ Return(p, Logged([f EXCEPT !.user_balance = balance,
                                          !.plan_price = plan_price],
                                Ev("debit", w.status, balance - plan_price)),
                      "UNKNOWN_ERROR")

\* lines 646-672: the stored uuid is compared, the plan looked up, then the
\* subscription lookup reads utils; nothing after line 672 runs
confirm_renewal_from_wallet(p, plan_id, uuid) ==
    /\ CanStart(p)
    /\ LET f == [Start(p, "renew") EXCEPT !.uuid = uuid, !.plan_id = plan_id]
       IN IF renew_subscription_dict # uuid
          THEN /\ Return(p, f, "UNKNOWN_ERROR")
               /\ UNCHANGED balance
          ELSE IF find_plan(plan_id) = {}
          THEN /\ Return(p, f, "PLAN_NOT_FOUND")
               /\ UNCHANGED balance
          ELSE IF utils_lookup = "NameError"
          THEN /\ Return(p, f, "UNKNOWN_ERROR")
               /\ UNCHANGED balance
          ELSE \E oki, okd \in BOOLEAN : renewal_from_wallet(p, f, oki, okd)
    /\ UNCHANGED << orders, tests, panel, sub, servers, settings, nextUuid,
                    buy_subscription_dict, renew_subscription_dict >>
    /\ UNCHANGED << lib, payments >>

\* ---------------------------------------------------------------- Next
Next ==
    \E p \in Procs :
        \/ users_bot_buy_subscription(p)
        \/ \E v \in PlanArgs : users_bot_plan_info(p, v)
        \/ \E v \in PlanArgs : confirm_buy_plan(p, v)
        \/ \E ok \in BOOLEAN : buy_debit(p, ok)
        \/ \E ok \in BOOLEAN : buy_create(p, ok)
        \/ \E ok \in BOOLEAN : buy_rollback(p, ok)
        \/ \E ok \in BOOLEAN : buy_add_order(p, ok)
        \/ \E ok \in BOOLEAN : buy_delete(p, ok)
        \/ \E ok \in BOOLEAN : buy_restore(p, ok)
        \/ buy_success(p)
        \/ users_bot_free_test(p)
        \/ \E u \in UuidArgs : renewal_subscription(p, u)
        \/ \E v \in PlanArgs, u \in UuidArgs : confirm_renewal_from_wallet(p, v, u)

Spec == Init /\ [][Next]_vars

\* =================================================================
\* Utils/coupons.py and Utils/affiliates.py: the functions of the two
\* modules, called with any arguments; no handler of the bots calls them
\* =================================================================
\* the bot at rest, its tables empty
NoBot ==
    /\ balance = 0
    /\ orders = {}
    /\ tests = {}
    /\ panel = {}
    /\ sub = CHOOSE s \in SubStates : TRUE
    /\ servers = <<>>
    /\ settings = CHOOSE c \in Configs : TRUE
    /\ buy_subscription_dict = NoSession
    /\ renew_subscription_dict = 0
    /\ nextUuid = SubUuid + 1
    /\ pc = [p \in Procs |-> "idle"]
    /\ fr = [p \in Procs |-> BlankFrame]

\* order amounts a caller can pass
MaxAmount == 100
Amounts == 0..MaxAmount

\* the largest percentage create_coupon accepts, and calculate_commission
MaxPercent == 100

\* affiliates.DEFAULT_COMMISSION_RATE_PERCENTAGE
DEFAULT_COMMISSION_RATE_PERCENTAGE == 10

\* the coupons of the claim: a percentage of 0..100 or a fixed amount >= 0
CouponArgs ==
    [discount_type : {"percentage"}, discount_value : 0..MaxPercent]
    \cup [discount_type : {"fixed"}, discount_value : 0..(MaxAmount + 1)]

\* the rate argument: {} for None, else one rate, in range or out of it
RateArgs == {{}} \cup {{r} : r \in (0 - 1)..(MaxPercent + 1)}

Min(a, b) == IF a <= b THEN a ELSE b

Max(a, b) == IF a >= b THEN a ELSE b

\* the fixed discount taken whole, whatever the amount
fixed_discount_unclamped(discount_value, original_amount_rials) ==
    discount_value

\* coupons.py:305: the fixed discount does not exceed the amount
fixed_discount(discount_value, original_amount_rials) ==
    Min(discount_value, original_amount_rials)

\* coupons.apply_coupon_discount
apply_coupon_discount(original_amount_rials, coupon) ==
    IF coupon.discount_type = "percentage"
    THEN LET discount_amount ==
                 int_of_percent(original_amount_rials, coupon.discount_value)
         IN Max(0, original_amount_rials - discount_amount)
    ELSE IF coupon.discount_type = "fixed"
    THEN LET discount_amount ==
                 fixed_discount(coupon.discount_value, original_amount_rials)
         IN original_amount_rials - discount_amount
    ELSE original_amount_rials

\* affiliates.calculate_commission: no rate given, or one out of 0..100,
\* becomes the default rate
calculate_commission(order_amount_rials, commission_rate_percentage) ==
    LET given == IF commission_rate_percentage = {}
                 THEN DEFAULT_COMMISSION_RATE_PERCENTAGE
                 ELSE CHOOSE r \in commission_rate_percentage : TRUE
        rate == IF ~(0 <= given /\ given <= MaxPercent)
                THEN DEFAULT_COMMISSION_RATE_PERCENTAGE ELSE given
    IN int_of_percent(order_amount_rials, rate)

\* the calls a caller can make: the function's arguments, not yet applied
ApplyArgs == [amount : Amounts, coupon : CouponArgs]

CommissionArgs == [amount : Amounts, rate : RateArgs]

Pending(args) == [NoCall EXCEPT !.args = args]

call_apply_coupon_discount ==
    /\ ret.fn = "none"
    /\ ret.args \in ApplyArgs
    /\ ret' = [ret EXCEPT !.fn = "apply_coupon_discount",
                          !.result = apply_coupon_discount(ret.args.amount,
                                                           ret.args.coupon)]
    /\ UNCHANGED << bot, payments, referrals, coupons, coupon_usage >>

call_calculate_commission ==
    /\ ret.fn = "none"
    /\ ret.args \in CommissionArgs
    /\ ret' = [ret EXCEPT !.fn = "calculate_commission",
                          !.result = calculate_commission(ret.args.amount,
                                                          ret.args.rate)]
    /\ UNCHANGED << bot, payments, referrals, coupons, coupon_usage >>

PureInit ==
    /\ NoBot
    /\ referrals = <<>>
    /\ coupons = <<>>
    /\ coupon_usage = <<>>
    /\ payments = <<>>
    /\ ret \in {Pending(args) : args \in ApplyArgs \cup CommissionArgs}

PureNext ==
    \/ call_apply_coupon_discount
    \/ call_calculate_commission

PureSpec == PureInit /\ [][PureNext]_vars

\* --------------------------------------------- referrals and coupons
\* the attributes of the gateway object: the methods class UserDBManager
\* defines.  Calling any other name on it raises AttributeError
UserDBManager ==
    {"create_connection", "create_user_table", "set_default_configs",
     "add_user", "find_user", "select_users", "edit_user", "delete_user",
     "add_server", "find_server", "select_servers", "edit_server",
     "delete_server", "add_plan", "find_plan", "select_plans", "edit_plan",
     "delete_plan", "add_order", "find_order", "select_orders",
     "add_payment", "find_payment", "select_payments", "edit_payment",
     "add_non_order_subscription", "find_non_order_subscription",
     "add_test_subscription", "find_test_subscription", "add_event",
     "select_int_config", "select_str_config", "select_bool_config",
     "edit_int_config", "edit_str_config", "edit_bool_config",
     "add_referral", "get_referrals_by_referrer", "get_referral_commission",
     "add_coupon", "find_coupon_by_code", "use_coupon",
     "is_coupon_used_by_user", "add_online_payment",
     "update_online_payment_status", "backup_to_json", "close_connection"}

\* telegram ids with a row in users, and the ids a caller can pass
Users == {1, 2}
UserArgs == Users \cup {3}

\* the pairs add_referral is called with directly
ReferralArgs == {<<1, 2>>, <<2, 1>>}

\* coupon codes a caller can pass; rows are added under the first only
CouponCode == "ABC"
CodeArgs == {CouponCode, "NOPE"}

\* days of the calendar: expiry dates and the clock read by validate_coupon
Days == {1, 2, 3}

\* uses of a coupon recorded through the gateway
MaxUsed == 2

\* the rows add_coupon can insert: {} stands for NULL
CouponRows ==
    [id : {1}, code : {CouponCode}, discount_type : {"percentage"},
     discount_value : {DEFAULT_COMMISSION_RATE_PERCENTAGE},
     is_active : BOOLEAN, expiry_date : {{}} \cup {{d} : d \in Days},
     usage_limit : {{}, {1}}, used_count : {0}]

Range(seq) == {seq[i] : i \in 1..Len(seq)}

\* UserDBManager.find_user(telegram_id=..): the rows, none = None
find_user(telegram_id) == {u \in Users : u = telegram_id}

\* UserDBManager.add_referral: INSERT OR IGNORE under UNIQUE(referrer_id,
\* referred_id); an sqlite3.Error leaves the table as it is
add_referral(rows, pair, ok) ==
    IF ok /\ pair \notin Range(rows) THEN Append(rows, pair) ELSE rows

\* the guard that lets a user refer themselves
self_referral_allowed(referrer_id, referred_id) == FALSE

\* affiliates.py:39
self_referral(referrer_id, referred_id) == referrer_id = referred_id

\* affiliates.register_referral: its result, the gateway calls it made and
\* the referrals table it leaves.  db_manager.find_referral is no attribute
\* of the gateway: line 56 raises AttributeError, caught at line 77
register_referral(referrer_id, referred_id, ok) ==
    LET pair == <<referrer_id, referred_id>>
        looked == <<"find_user", "find_user">>
        out(result, calls, rows) ==
            [result |-> result, calls |-> calls, referrals |-> rows]
    IN IF self_referral(referrer_id, referred_id)
       THEN out(FALSE, <<>>, referrals)
       ELSE IF find_user(referrer_id) = {} \/ find_user(referred_id) = {}
       THEN out(FALSE, looked, referrals)
       ELSE IF "find_referral" \notin UserDBManager
       THEN out(FALSE, looked, referrals)
       ELSE IF pair \in Range(referrals)
       THEN out(TRUE, Append(looked, "find_referral"), referrals)
       ELSE out(ok, looked \o <<"find_referral", "add_referral">>,
                add_referral(referrals, pair, ok))

\* coupons.find_coupon_by_code: db_manager.find_coupon is no attribute of
\* the gateway; the AttributeError is caught at line 172 and None returned
find_coupon_by_code(code) ==
    IF "find_coupon" \notin UserDBManager THEN {}
    ELSE {c \in Range(coupons) : c.code = code}

Verdict(valid, error) == [valid |-> valid, error |-> error]

\* coupons.validate_coupon; user_id is {} for None
validate_coupon(code, user_id, now) ==
    LET found == find_coupon_by_code(code)
        coupon == CHOOSE c \in found : TRUE
    IN IF found = {}
       THEN Verdict(FALSE, "Coupon not found.")
       ELSE IF ~coupon.is_active
       THEN Verdict(FALSE, "Coupon is not active.")
       ELSE IF \E d \in coupon.expiry_date : now > d
       THEN Verdict(FALSE, "Coupon has expired.")
       ELSE IF \E l \in coupon.usage_limit : coupon.used_count >= l
       THEN Verdict(FALSE, "Coupon usage limit exceeded.")
       ELSE IF user_id # {} /\ "find_coupon_usage" \notin UserDBManager
       THEN Verdict(FALSE, "Unexpected error during validation.")
       ELSE IF \E u \in user_id : <<coupon.id, u>> \in Range(coupon_usage)
       THEN Verdict(FALSE, "You have already used this coupon.")
       ELSE Verdict(TRUE, "None")

\* the first of the generated codes that no stored coupon carries, 0 if none
FirstFresh(generated, rows) ==
    LET fresh == {i \in 1..Len(generated) :
                     \A c \in Range(rows) : c.code # generated[i]}
    IN IF fresh = {} THEN 0 ELSE CHOOSE i \in fresh : \A j \in fresh : i <= j

\* coupons.create_coupon with a valid discount; code is {} for None,
\* generated the codes generate_coupon_code returns in turn, row the other
\* columns.  db_manager.find_coupon is no attribute of the gateway: line 89
\* (no code given) or line 97 (code given) raises AttributeError, caught at
\* line 143, and None ({}) is returned before any insert
create_coupon(code, generated, row, ok) ==
    LET out(result, calls, rows) ==
            [result |-> result, calls |-> calls, coupons |-> rows]
        tried == FirstFresh(generated, coupons)
        chosen == IF code # {} THEN CHOOSE c \in code : TRUE
                  ELSE generated[tried]
        inserted == Append(coupons, [row EXCEPT !.code = chosen,
                                                !.id = Len(coupons) + 1])
    IN IF "find_coupon" \notin UserDBManager
       THEN out({}, <<>>, coupons)
       ELSE IF code = {} /\ tried = 0
       THEN out({}, [i \in 1..Len(generated) |-> "find_coupon"], coupons)
       ELSE IF \E c \in Range(coupons) : c.code = chosen
       THEN out({}, <<"find_coupon">>, coupons)
       ELSE IF ~ok
       THEN out({}, <<"find_coupon", "add_coupon">>, coupons)
       ELSE out({inserted[Len(inserted)]},
                <<"find_coupon", "add_coupon", "find_coupon">>, inserted)

\* coupons.use_coupon: the gateway calls it made, its result and the tables
\* it leaves.  db_manager.add_coupon_usage is no attribute of the gateway:
\* line 337 raises AttributeError, caught at line 368, and False is
\* returned before any row is written (find_coupon of line 345 and
\* edit_coupon of line 356 are no attributes either)
use_coupon(coupon_id, user_id, ok_insert, ok_update) ==
    LET out(result, calls, usage, rows) ==
            [result |-> result, calls |-> calls, coupon_usage |-> usage,
             coupons |-> rows]
        recorded == Append(coupon_usage, <<coupon_id, user_id>>)
        found == {i \in 1..Len(coupons) : coupons[i].id = coupon_id}
        counted == [i \in 1..Len(coupons) |->
                       IF i \in found
                       THEN [coupons[i] EXCEPT !.used_count = coupons[i].used_count + 1]
                       ELSE coupons[i]]
    IN IF "add_coupon_usage" \notin UserDBManager
       THEN out(FALSE, <<>>, coupon_usage, coupons)
       ELSE IF ~ok_insert
       THEN out(FALSE, <<"add_coupon_usage">>, coupon_usage, coupons)
       ELSE IF "find_coupon" \notin UserDBManager \/ found = {}
       THEN out(FALSE, <<"add_coupon_usage">>, recorded, coupons)
       ELSE IF "edit_coupon" \notin UserDBManager \/ ~ok_update
       THEN out(FALSE, <<"add_coupon_usage", "find_coupon">>, recorded, coupons)
       ELSE out(TRUE, <<"add_coupon_usage", "find_coupon", "edit_coupon">>,
                recorded, counted)

\* a call made on the gateway itself: ret holds library calls only
call_add_referral(pair, ok) ==
    /\ referrals' = add_referral(referrals, pair, ok)
    /\ ret' = NoCall
    /\ UNCHANGED << bot, payments, coupons, coupon_usage >>

call_register_referral(referrer_id, referred_id, ok) ==
    LET out == register_referral(referrer_id, referred_id, ok)
    IN /\ referrals' = out.referrals
       /\ ret' = [fn |-> "register_referral",
                  args |-> <<referrer_id, referred_id>>,
                  result |-> out.result, calls |-> out.calls,
                  pre |-> referrals]
       /\ UNCHANGED << bot, payments, coupons, coupon_usage >>

\* UserDBManager.add_coupon: the INSERT, refused under UNIQUE(code)
call_add_coupon(row, ok) ==
    /\ coupons' = IF ok /\ \A c \in Range(coupons) : c.code # row.code
                  THEN Append(coupons, row) ELSE coupons
    /\ ret' = NoCall
    /\ UNCHANGED << bot, payments, referrals, coupon_usage >>

\* UserDBManager.use_coupon: the usage row is inserted and committed, then
\* used_count is incremented; an sqlite3.Error can end it before either
\* statement ("none") or between the two ("insert")
call_use_coupon(coupon_id, user_id, done) ==
    /\ Len(coupon_usage) < MaxUsed
    /\ coupon_usage' = IF done = "none" THEN coupon_usage
                       ELSE Append(coupon_usage, <<coupon_id, user_id>>)
    /\ coupons' = IF done # "both" THEN coupons
                  ELSE [i \in 1..Len(coupons) |->
                           IF coupons[i].id = coupon_id
                           THEN [coupons[i] EXCEPT !.used_count = @ + 1]
                           ELSE coupons[i]]
    /\ ret' = NoCall
    /\ UNCHANGED << bot, payments, referrals >>

call_validate_coupon(code, user_id, now) ==
    /\ ret' = [fn |-> "validate_coupon",
               args |-> [code |-> code, user_id |-> user_id, now |-> now],
               result |-> validate_coupon(code, user_id, now),
               calls |-> <<>>, pre |-> coupons]
    /\ UNCHANGED << bot, payments, referrals, coupons, coupon_usage >>

\* the codes the generator returns in the attempts of one call: the stored
\* code in the first k attempts, another code after them
MaxAttempts == 5
GeneratedArgs ==
    {[i \in 1..MaxAttempts |-> IF i <= k THEN CouponCode ELSE "NOPE"] :
        k \in 0..MaxAttempts}

call_create_coupon(code, generated, row, ok) ==
    LET out == create_coupon(code, generated, row, ok)
    IN /\ coupons' = out.coupons
       /\ ret' = [fn |-> "create_coupon",
                  args |-> [code |-> code, generated |-> generated, ok |-> ok],
                  result |-> out.result, calls |-> out.calls, pre |-> coupons]
       /\ UNCHANGED << bot, payments, referrals, coupon_usage >>

call_coupons_use_coupon(coupon_id, user_id, ok_insert, ok_update) ==
    LET out == use_coupon(coupon_id, user_id, ok_insert, ok_update)
    IN /\ Len(coupon_usage) < MaxUsed
       /\ coupon_usage' = out.coupon_usage
       /\ coupons' = out.coupons
       /\ ret' = [fn |-> "use_coupon",
                  args |-> [coupon_id |-> coupon_id, user_id |-> user_id,
                            ok_insert |-> ok_insert, ok_update |-> ok_update],
                  result |-> out.result, calls |-> out.calls,
                  pre |-> [coupons |-> coupons, coupon_usage |-> coupon_usage]]
       /\ UNCHANGED << bot, payments, referrals >>

LibInit == NoBot /\ NoLibrary

LibNext ==
    \/ \E pair \in ReferralArgs, ok \in BOOLEAN : call_add_referral(pair, ok)
    \/ \E a, b \in UserArgs, ok \in BOOLEAN : call_register_referral(a, b, ok)
    \/ \E row \in CouponRows, ok \in BOOLEAN : call_add_coupon(row, ok)
    \/ \E u \in Users, done \in {"both", "insert", "none"} :
           call_use_coupon(1, u, done)
    \/ \E code \in CodeArgs, user_id \in {{}} \cup {{u} : u \in Users},
          now \in Days : call_validate_coupon(code, user_id, now)

LibSpec == LibInit /\ [][LibNext]_vars

\* ------------------------- coupons created and used through coupons.py
\* the coupons table filled through the gateway or through create_coupon,
\* uses recorded through the gateway or through coupons.use_coupon
CouponNext ==
    \/ \E row \in CouponRows, ok \in BOOLEAN : call_add_coupon(row, ok)
    \/ \E u \in Users, done \in {"both", "insert", "none"} :
           call_use_coupon(1, u, done)
    \/ \E code \in {{}, {CouponCode}}, generated \in GeneratedArgs,
          ok \in BOOLEAN :
           call_create_coupon(code, generated,
                              CHOOSE row \in CouponRows :
                                  row.is_active /\ row.expiry_date = {}
                                  /\ row.usage_limit = {}, ok)
    \/ \E u \in Users, ok_insert, ok_update \in BOOLEAN :
           call_coupons_use_coupon(1, u, ok_insert, ok_update)

CouponSpec == LibInit /\ [][CouponNext]_vars

\* ------------------------------------------------ the selector alone
\* the capacity ceiling a server row can carry; 0 is a row without one
Ceiling == 2

ServerRows == [id : {1, 2}, status : BOOLEAN, user_limit : {0, Ceiling}]

\* the servers tables the selector is called on: up to two rows, either order
SelectorLists ==
    {<<>>} \cup {<<r>> : r \in ServerRows}
    \cup {x \in ServerRows \X ServerRows : x[1].id # x[2].id}

\* the orders tables: each of three subscriptions absent or on a server
SelectorOrders ==
    {{[uuid |-> u, plan_id |-> 1, server_id |-> on[u], price |-> 1] :
         u \in {x \in 1..3 : on[x] # 0}} : on \in [1..3 -> {0, 1, 2}]}

call_select_best_server_for_user ==
    /\ ret.fn = "none"
    /\ ret' = [ret EXCEPT !.fn = "select_best_server_for_user",
                          !.result = select_best_server_for_user]
    /\ UNCHANGED << bot, payments, referrals, coupons, coupon_usage >>

SelectorInit ==
    /\ balance = 0
    /\ orders \in SelectorOrders
    /\ tests = {}
    /\ panel = {}
    /\ sub = CHOOSE s \in SubStates : TRUE
    /\ servers \in SelectorLists
    /\ settings = CHOOSE c \in Configs : TRUE
    /\ buy_subscription_dict = NoSession
    /\ renew_subscription_dict = 0
    /\ nextUuid = SubUuid + 1
    /\ pc = [p \in Procs |-> "idle"]
    /\ fr = [p \in Procs |-> BlankFrame]
    /\ NoLibrary

SelectorNext == call_select_best_server_for_user

SelectorSpec == SelectorInit /\ [][SelectorNext]_vars

\* =================================================================
\* The wallet under every operation that writes it: the user bot's
\* purchase and renewal, the admin bot's payment approval
\* (AdminBot/bot.py) and affiliates.apply_commission, one request at a
\* time.  The bots create no payment row (add_payment is called with
\* keywords it does not have, UserBot/bot.py:882 and
\* payments_online.py:85): the payments table is drawn in Init, with a row
\* in each approval state
\* =================================================================
\* the chat user, owner of the wallet balance
ChatUser == CHOOSE u \in Users : \A v \in Users : u <= v

\* the approval column: {} is NULL (pending)
Approvals == {{}, {TRUE}, {FALSE}}

\* one row of the chat user; credits counts the wallet writes made for the
\* row that took effect
PaymentTables ==
    {<<[id |-> 1, telegram_id |-> t, payment_amount |-> 1,
        approved |-> a, credits |-> 0]>> :
        t \in {ChatUser}, a \in Approvals}

\* what the callback data can carry after the payment id: the keyboard of
\* markups.py:297-304 sends nothing (None)
ItemModes == {"Confirm", "None"}

\* UserDBManager.find_payment(id=..): the rows, none = None
find_payment(id) == {i \in 1..Len(payments) : payments[i].id = id}

\* the UPDATE with its values in the order of its placeholders
edit_payment_bound_in_order(rows, id, approved, ok) ==
    [payments |-> IF ok
                  THEN [i \in 1..Len(rows) |->
                           IF rows[i].id = id
                           THEN [rows[i] EXCEPT !.approved = {approved}]
                           ELSE rows[i]]
                  ELSE rows,
     status |-> ok /\ \E i \in 1..Len(rows) : rows[i].id = id]

\* UserDBManager.edit_payment(approved=..): as in edit_user, line 823
\* appends the id to the values before line 825 appends the timestamp, so
\* the statement sets updated_at to the id and looks for the row whose id is
\* the timestamp.  No row matches or an sqlite3.Error is caught (~ok): the
\* table is untouched and False returned
edit_payment(rows, id, approved, ok) == [payments |-> rows, status |-> FALSE]

\* a call of a wallet operation, as ret holds it
WalletCall(fn, args, result, calls) ==
    [fn |-> fn, args |-> args, result |-> result, calls |-> calls,
     pre |-> [balance |-> balance, payments |-> payments]]

\* AdminBot/bot.py, key confirm_change_status_payment (lines 393-429): the
\* payment is looked up, its approval written, and for a confirmation the
\* owner looked up and the amount added to the balance read
confirm_change_status_payment(payment_id, item_mode, okp, oku) ==
    LET found == find_payment(payment_id)
        at == CHOOSE i \in found : TRUE
        payment == payments[at]
        new_status == item_mode = "Confirm"
        status == edit_payment(payments, payment_id, new_status, okp)
        credit == edit_user(balance, balance + payment.payment_amount, oku)
        answer(msg, calls) ==
            ret' = WalletCall("confirm_change_status_payment",
                              [payment_id |-> payment_id, item_mode |-> item_mode],
                              msg, calls)
    IN /\ \A p \in Procs : Idle(p)
       /\ IF found = {}
          THEN /\ answer("ERROR_PAYMENT_NOT_FOUND", <<>>)
               /\ UNCHANGED << payments, balance >>
          ELSE IF ~status.status
          THEN /\ answer("ERROR_UNKNOWN", <<"edit_payment">>)
               /\ payments' = status.payments
               /\ UNCHANGED balance
          ELSE IF new_status /\ find_user(payment.telegram_id) # {}
          THEN /\ balance + payment.payment_amount <= MaxBalance
               /\ answer("SUCCESS_PAYMENT_STATUS_CHANGED",
                         <<"edit_payment", "edit_user">>)
               /\ balance' = credit.balance
               /\ payments' =
                      [status.payments EXCEPT ![at].credits =
                          IF credit.status THEN @ + 1 ELSE @]
          ELSE /\ answer("SUCCESS_PAYMENT_STATUS_CHANGED", <<"edit_payment">>)
               /\ payments' = status.payments
               /\ UNCHANGED balance
       /\ UNCHANGED << orders, tests, panel, sub, servers, settings, nextUuid,
                       buy_subscription_dict, renew_subscription_dict, pc, fr,
                       referrals, coupons, coupon_usage >>

\* affiliates.apply_commission for the wallet of the chat user: its result,
\* the gateway calls that returned and the balance it leaves.  The balance
\* write of line 146 returns False (edit_user) and the function returns
\* False at line 149; past it, db_manager.add_affiliate_commission (line
\* 153) is no attribute of the gateway and the AttributeError, caught at
\* line 175, makes it return False as well
apply_commission(referrer_id, commission_amount_rials, ok) ==
    LET out(result, calls, bal) ==
            [result |-> result, calls |-> calls, balance |-> bal]
        w == edit_user(balance, balance + commission_amount_rials, ok)
    IN IF find_user(referrer_id) = {}
       THEN out(FALSE, <<"find_user">>, balance)
       ELSE IF ~w.status
       THEN out(FALSE, <<"find_user", "edit_user">>, w.balance)
       ELSE IF "add_affiliate_commission" \notin UserDBManager
       THEN out(FALSE, <<"find_user", "edit_user">>, w.balance)
       ELSE out(TRUE, <<"find_user", "edit_user", "add_affiliate_commission">>,
                w.balance)

call_apply_commission(referrer_id, commission_amount_rials, ok) ==
    LET out == apply_commission(referrer_id, commission_amount_rials, ok)
    IN /\ \A p \in Procs : Idle(p)
       /\ balance + commission_amount_rials <= MaxBalance
       /\ balance' = out.balance
       /\ ret' = WalletCall("apply_commission",
                            [referrer_id |-> referrer_id,
                             amount |-> commission_amount_rials, ok |-> ok],
                            out.result, out.calls)
       /\ UNCHANGED << orders, tests, panel, sub, servers, settings, nextUuid,
                       buy_subscription_dict, renew_subscription_dict, pc, fr,
                       referrals, coupons, coupon_usage, payments >>

\* one server on sale, the purchase session stored, one payment row
LedgerInit ==
    /\ balance \in 0..MaxBalance
    /\ orders = {[uuid |-> SubUuid, plan_id |-> 1, server_id |-> 1, price |-> 1]}
    /\ tests = {}
    /\ panel = {SubUuid}
    /\ sub = [remaining_day |-> 2, remaining_usage_GB |-> 10,
               package_days |-> 10, usage_limit_GB |-> 10]
    /\ servers = << [id |-> 1, status |-> TRUE, user_limit |-> 0] >>
    /\ settings = [renewal_method |-> 2, buy_subscription_status |-> TRUE,
                    test_subscription |-> TRUE]
    /\ buy_subscription_dict \in InitSessions \ {NoSession}
    /\ renew_subscription_dict = 0
    /\ nextUuid = SubUuid + 1
    /\ pc = [p \in Procs |-> "idle"]
    /\ fr = [p \in Procs |-> BlankFrame]
    /\ referrals = <<>>
    /\ coupons = <<>>
    /\ coupon_usage = <<>>
    /\ ret = NoCall
    /\ payments \in PaymentTables

LedgerNext ==
    \/ Next
    \/ \E m \in ItemModes, okp, oku \in BOOLEAN, id \in 1..2 :
           confirm_change_status_payment(id, m, okp, oku)
    \/ \E u \in {ChatUser} \cup (UserArgs \ Users), ok \in BOOLEAN :
           call_apply_commission(u, 1, ok)

LedgerSpec == LedgerInit /\ [][LedgerNext]_vars

\* =================================================================
\* Two purchase confirmations of the chat user at once.  The bot is built
\* by telebot.TeleBot(token) (UserBot/bot.py:32), threaded with two worker
\* threads: two callbacks run their handlers side by side, each gateway or
\* panel call one step.  The session holds a server and a plan, as
\* users_bot_plan_info leaves it
\* =================================================================
RaceProcs == {1, 2}

RaceInit ==
    /\ balance \in 0..MaxBalance
    /\ orders = {[uuid |-> SubUuid, plan_id |-> 1, server_id |-> 1, price |-> 1]}
    /\ tests = {}
    /\ panel = {SubUuid}
    /\ sub \in SubStates
    /\ servers = << [id |-> 1, status |-> TRUE, user_limit |-> 0] >>
    /\ settings = [renewal_method |-> 2, buy_subscription_status |-> TRUE,
                    test_subscription |-> TRUE]
    /\ buy_subscription_dict \in
           [present : {TRUE}, server_id : {1}, plan_id : DOMAIN Plans]
    /\ renew_subscription_dict = 0
    /\ nextUuid = SubUuid + 1
    /\ pc = [p \in RaceProcs |-> "idle"]
    /\ fr = [p \in RaceProcs |-> BlankFrame]
    /\ NoLibrary

\* a worker thread takes the next confirm_buy_plan callback
race_confirm_buy_plan(p, value) ==
    /\ Idle(p)
    /\ confirm_buy_plan_checks(p, value)

RaceNext ==
    \E p \in RaceProcs :
        \/ \E value \in PlanArgs : race_confirm_buy_plan(p, value)
        \/ \E ok \in BOOLEAN : buy_debit(p, ok)
        \/ \E ok \in BOOLEAN : buy_create(p, ok)
        \/ \E ok \in BOOLEAN : buy_rollback(p, ok)
        \/ \E ok \in BOOLEAN : buy_add_order(p, ok)
        \/ \E ok \in BOOLEAN : buy_delete(p, ok)
        \/ \E ok \in BOOLEAN : buy_restore(p, ok)
        \/ buy_success(p)

RaceSpec == RaceInit /\ [][RaceNext]_vars

\* =================================================================
\* The claims
\* =================================================================
Done(p, kind) == pc[p] = "done" /\ fr[p].kind = kind

Events(f, e) == {i \in 1..Len(f.log) : f.log[i].ev = e}

Succeeded(f, e) == \E i \in Events(f, e) : f.log[i].ok

Failed(f, e) == \E i \in Events(f, e) : ~f.log[i].ok

\* state (a): debited by the price, one new order row with the created uuid,
\* the remote subscription exists
Purchased(f) ==
    /\ f.uuid # 0
    /\ balance = f.pre_balance - f.plan_price
    /\ \E row \in orders : /\ row.uuid = f.uuid
                           /\ orders = f.pre_orders \cup {row}
                           /\ row \notin f.pre_orders
    /\ f.uuid \in panel

\* state (b): wallet, orders and remote subscriptions as before the flow
Untouched(f) ==
    /\ balance = f.pre_balance
    /\ orders = f.pre_orders
    /\ panel = f.pre_panel

First(f, e) ==
    IF Events(f, e) = {} THEN 0
    ELSE CHOOSE i \in Events(f, e) : \A j \in Events(f, e) : i <= j

Before(f, a, b) == First(f, a) # 0 /\ First(f, a) < First(f, b)

ShortOfBalance(p) ==
    \/ /\ Done(p, "buy")
       /\ fr[p].plan_price > fr[p].pre_balance
    \/ /\ Done(p, "renew")
       /\ fr[p].uuid = SubUuid
       /\ renew_subscription_dict = SubUuid
       /\ Len(servers) > 0
       /\ fr[p].plan_id \in DOMAIN Plans
       /\ Plans[fr[p].plan_id].price > fr[p].pre_balance

PriceOf(f) == IF f.kind = "buy" THEN f.plan_price ELSE Plans[f.plan_id].price

\* C6: a purchase or renewal confirmed with a wallet below the plan price
\* changes nothing (wallet, panel, orders) and reports the shortfall
\* price - balance.
C6_InsufficientBalance ==
    \A p \in Procs :
        ShortOfBalance(p)
            => /\ Untouched(fr[p])
               /\ fr[p].log = <<>>
               /\ fr[p].msg = "NOT_ENOUGH_BALANCE"
               /\ fr[p].needed = PriceOf(fr[p]) - fr[p].pre_balance

C8_OneTrial ==
    /\ Cardinality(tests) <= 1
    /\ \A p \in Procs :
           (Done(p, "test") /\ fr[p].pre_tests # {})
               => /\ fr[p].msg \in {"ALREADY_RECEIVED_FREE_TEST", "FEATUR_UNAVAILABLE"}
                  /\ Events(fr[p], "create") = {}
                  /\ tests = fr[p].pre_tests
                  /\ panel = fr[p].pre_panel

\* a trial request refused because the trial record exists
C8_Witness ==
    \E p \in Procs :
        /\ Done(p, "test")
        /\ fr[p].pre_tests # {}
        /\ fr[p].msg = "ALREADY_RECEIVED_FREE_TEST"

\* the selection step was run on the held subscription, whose server exists
SelectedHeld(p) ==
    /\ Done(p, "renewal_select")
    /\ fr[p].uuid = SubUuid
    /\ Len(servers) > 0

AboveThresholds ==
    /\ sub.remaining_day > advanced_renewal_days
    /\ sub.remaining_usage_GB > advanced_renewal_usage

\* C9: under the advanced method the selection step answers with the
\* thresholds message exactly when remaining days and remaining usage both
\* exceed their thresholds, and with the plan list otherwise.
C9_AdvancedGate ==
    \A p \in Procs :
        (SelectedHeld(p) /\ settings.renewal_method = 2)
            => fr[p].msg = IF AboveThresholds THEN "RENEWAL_UNAVAILABLE"
                           ELSE "RENEWAL_PLANS_LIST"

\* the triple the default method is to push for the held subscription
DefaultRenewal(plan) ==
    IF sub.remaining_day <= 0 \/ sub.remaining_usage_GB <= 0
    THEN [usage_limit_GB |-> plan.size_gb, package_days |-> plan.days,
          reset_usage |-> TRUE]
    ELSE [usage_limit_GB |-> sub.usage_limit_GB + plan.size_gb,
          package_days |-> plan.days + (sub.package_days - sub.remaining_day),
          reset_usage |-> FALSE]

\* a renewal of the held subscription was confirmed with a sufficient wallet
RenewalConfirmed(p) ==
    /\ Done(p, "renew")
    /\ fr[p].uuid = SubUuid
    /\ renew_subscription_dict = SubUuid
    /\ Len(servers) > 0
    /\ fr[p].plan_id \in DOMAIN Plans
    /\ Plans[fr[p].plan_id].price <= fr[p].pre_balance

\* C10: a renewal under the default method pushes to the panel plan size,
\* plan days and current usage 0 when the subscription is exhausted, and
\* otherwise old limit + plan size, plan days + (package days - remaining
\* days) with the current usage kept.
C10_DefaultRenewalPushed ==
    \A p \in Procs :
        (RenewalConfirmed(p) /\ settings.renewal_method = 1)
            => \E i \in Events(fr[p], "update") :
                   fr[p].log[i].arg = DefaultRenewal(Plans[fr[p].plan_id])

\* the triple the fair method is to push for the held subscription
FairRenewal(plan) ==
    IF sub.remaining_day <= 0 \/ sub.remaining_usage_GB <= 0
    THEN [usage_limit_GB |-> plan.size_gb, package_days |-> plan.days,
          reset_usage |-> TRUE]
    ELSE [usage_limit_GB |-> sub.usage_limit_GB + plan.size_gb,
          package_days |-> plan.days + sub.package_days,
          reset_usage |-> FALSE]

\* C11: a renewal under the fair method pushes to the panel, for a
\* subscription with days and usage left, plan days + the package days and
\* old limit + plan size, and for an exhausted one plan size, plan days and
\* current usage 0; with days and usage left the package days pushed are not
\* less than the default method's.
C11_FairRenewalPushed ==
    \A p \in Procs :
        (RenewalConfirmed(p) /\ settings.renewal_method = 3)
            => /\ \E i \in Events(fr[p], "update") :
                      fr[p].log[i].arg = FairRenewal(Plans[fr[p].plan_id])
               /\ FairRenewal(Plans[fr[p].plan_id]).package_days
                      >= DefaultRenewal(Plans[fr[p].plan_id]).package_days

\* the triple the advanced method is to push, whatever the subscription has left
AdvancedRenewal(plan) ==
    [usage_limit_GB |-> plan.size_gb, package_days |-> plan.days,
     reset_usage |-> TRUE]

\* C12: a renewal under the advanced method pushes to the panel plan size,
\* plan days and current usage 0, whatever days and usage the subscription
\* has left.
C12_AdvancedRenewalPushed ==
    \A p \in Procs :
        (RenewalConfirmed(p) /\ settings.renewal_method = 2)
            => \E i \in Events(fr[p], "update") :
                   fr[p].log[i].arg = AdvancedRenewal(Plans[fr[p].plan_id])

\* C13: for a percentage coupon of 0..100 or a fixed coupon of value >= 0
\* and an amount >= 0, apply_coupon_discount returns an integer in
\* [0, amount]; a fixed discount above the amount yields 0.
C13_DiscountInRange ==
    ret.fn = "apply_coupon_discount"
        => /\ ret.result \in 0..ret.args.amount
           /\ (/\ ret.args.coupon.discount_type = "fixed"
               /\ ret.args.coupon.discount_value > ret.args.amount)
                  => ret.result = 0

\* a fixed coupon worth more than the positive amount it was applied to
C13_Witness ==
    /\ ret.fn = "apply_coupon_discount"
    /\ ret.args.coupon.discount_type = "fixed"
    /\ ret.args.amount > 0
    /\ ret.args.coupon.discount_value > ret.args.amount
    /\ ret.result = 0

\* the rate the claim has calculate_commission use
ClaimedRate(rate) ==
    IF rate = {} THEN DEFAULT_COMMISSION_RATE_PERCENTAGE
    ELSE LET r == CHOOSE x \in rate : TRUE
         IN IF 0 <= r /\ r <= MaxPercent THEN r
            ELSE DEFAULT_COMMISSION_RATE_PERCENTAGE

\* C17: for an amount >= 0 and any rate, calculate_commission returns
\* floor(amount * r / 100), r the given rate when it lies in [0, 100] and
\* the default rate 10 otherwise or when none is given; the result lies in
\* [0, amount].
C17_CommissionIsFloor ==
    ret.fn = "calculate_commission"
        => /\ ret.result = (ret.args.amount * ClaimedRate(ret.args.rate)) \div 100
           /\ ret.result \in 0..ret.args.amount

\* the error the claim has validate_coupon report, "None" when no check
\* fails: the first failing check in the order not found, inactive, expired,
\* exhausted, already used by the user
FirstFailing(code, user_id, now) ==
    LET found == {c \in Range(coupons) : c.code = code}
        coupon == CHOOSE c \in found : TRUE
    IN IF found = {} THEN "Coupon not found."
       ELSE IF ~coupon.is_active THEN "Coupon is not active."
       ELSE IF \E d \in coupon.expiry_date : now > d THEN "Coupon has expired."
       ELSE IF \E l \in coupon.usage_limit : coupon.used_count >= l
       THEN "Coupon usage limit exceeded."
       ELSE IF \E u \in user_id : <<coupon.id, u>> \in Range(coupon_usage)
       THEN "You have already used this coupon."
       ELSE "None"

\* C14: validate_coupon reports the first failing check in the order not
\* found, inactive, expired, exhausted, already used by the user, and the
\* result is valid only when no check fails.
C14_FirstFailingCheck ==
    ret.fn = "validate_coupon"
        => LET a == ret.args
           IN /\ ret.result.error = FirstFailing(a.code, a.user_id, a.now)
              /\ ret.result.valid = (FirstFailing(a.code, a.user_id, a.now) = "None")

\* C15: register_referral(X, X) returns False, makes no call on the
\* gateway and leaves the referral rows as they were.
C15_SelfReferralRefused ==
    (ret.fn = "register_referral" /\ ret.args[1] = ret.args[2])
        => /\ ret.result = FALSE
           /\ ret.calls = <<>>
           /\ referrals = ret.pre

\* a user who exists referred themselves while another referral was stored
C15_Witness ==
    /\ ret.fn = "register_referral"
    /\ ret.args[1] = ret.args[2]
    /\ ret.args[1] \in Users
    /\ referrals # <<>>
    /\ ret.result = FALSE

\* rows of the referrals table for the pair
RowsFor(rows, pair) == {i \in 1..Len(rows) : rows[i] = pair}

\* C16: for existing users A # B, after register_referral(A, B) exactly one
\* referral row for (A, B) exists, and a call made when the row is already
\* there returns True without inserting.
C16_RegisterIdempotent ==
    (/\ ret.fn = "register_referral"
     /\ ret.args[1] # ret.args[2]
     /\ ret.args[1] \in Users /\ ret.args[2] \in Users)
        => /\ Cardinality(RowsFor(referrals, ret.args)) = 1
           /\ RowsFor(ret.pre, ret.args) # {}
                  => (ret.result = TRUE /\ referrals = ret.pre)

\* the servers table is empty or every row of it is inactive
NoActiveServer == \A i \in 1..Len(servers) : ~servers[i].status

\* a purchase or free-trial request that came to the selector
AskedSelector(p) ==
    \/ Done(p, "buy_menu") /\ settings.buy_subscription_status
    \/ Done(p, "test") /\ settings.test_subscription /\ fr[p].pre_tests = {}

\* C18: with no server or only inactive servers, select_best_server_for_user
\* returns None (no exception leaves it), and the purchase and free-trial
\* handlers answer that the server is full and change nothing: wallet,
\* orders, trial records, remote subscriptions and the session entry.
C18_NoServerNoChange ==
    NoActiveServer
        => /\ select_best_server_for_user = 0
           /\ \A p \in Procs :
                  AskedSelector(p)
                      => /\ fr[p].msg = "SERVER_IS_FULL"
                         /\ Untouched(fr[p])
                         /\ tests = fr[p].pre_tests
                         /\ buy_subscription_dict = fr[p].pre_session

\* a purchase request answered with only an inactive server in the table
C18_Witness ==
    \E p \in Procs :
        /\ Done(p, "buy_menu")
        /\ settings.buy_subscription_status
        /\ Len(servers) > 0
        /\ NoActiveServer
        /\ fr[p].msg = "SERVER_IS_FULL"

\* subscribers of a server: the orders that name it
user_count(server_id) == Cardinality({o \in orders : o.server_id = server_id})

\* the load score of a row, times 100 * Ceiling: the raw count for a row
\* without a ceiling, else count / ceiling + count * 0.01
ScaledScore(row) ==
    IF row.user_limit = 0 THEN user_count(row.id) * 100 * Ceiling
    ELSE (user_count(row.id) * 100 * Ceiling) \div row.user_limit
         + user_count(row.id) * Ceiling

Active == {servers[i] : i \in {j \in 1..Len(servers) : servers[j].status}}

\* the selector was run on two active servers
SelectedOfTwo ==
    /\ ret.fn = "select_best_server_for_user"
    /\ Len(servers) = 2
    /\ Cardinality(Active) = 2

\* C19: of two active servers with equal positive ceilings and different
\* subscriber counts the selector returns the one with fewer subscribers,
\* whichever comes first in the table.
C19_FewerSubscribersWins ==
    (/\ SelectedOfTwo
     /\ servers[1].user_limit = servers[2].user_limit
     /\ servers[1].user_limit > 0
     /\ user_count(servers[1].id) # user_count(servers[2].id))
        => \E row \in Active :
               /\ ret.result = row.id
               /\ \A other \in Active : user_count(row.id) <= user_count(other.id)

\* C20: of two active servers, one without a ceiling (scored by its raw
\* subscriber count) and one with a positive ceiling, the selector does not
\* fail and returns an active server of minimum score.
C20_MixedCeilings ==
    (/\ SelectedOfTwo
     /\ \E row \in Active : row.user_limit = 0
     /\ \E row \in Active : row.user_limit > 0)
        => \E row \in Active :
               /\ ret.result = row.id
               /\ \A other \in Active : ScaledScore(row) <= ScaledScore(other)

\* used_count of the coupon with that id in a coupons table
UsedCount(rows, coupon_id) ==
    LET found == {i \in 1..Len(rows) : rows[i].id = coupon_id}
    IN rows[CHOOSE i \in found : TRUE].used_count

\* the last call was coupons.use_coupon on a coupon the table holds
UsedStoredCoupon ==
    /\ ret.fn = "use_coupon"
    /\ \E c \in Range(ret.pre.coupons) : c.id = ret.args.coupon_id

\* the usage table is the one before the call plus the call's record
RecordAdded ==
    coupon_usage = Append(ret.pre.coupon_usage,
                          <<ret.args.coupon_id, ret.args.user_id>>)

\* C24: use_coupon commits in two steps, the usage insert then the
\* used_count increment: a failed insert returns False and changes nothing;
\* a failed increment after the insert returns False, the record staying and
\* used_count unchanged; both succeeding returns True with exactly one
\* record added and used_count increased by exactly 1.
C24_TwoStepCommit ==
    UsedStoredCoupon =>
        LET a == ret.args
        IN /\ ~a.ok_insert
                  => /\ ret.result = FALSE
                     /\ coupon_usage = ret.pre.coupon_usage
                     /\ coupons = ret.pre.coupons
           /\ (a.ok_insert /\ ~a.ok_update)
                  => /\ ret.result = FALSE
                     /\ RecordAdded
                     /\ coupons = ret.pre.coupons
           /\ (a.ok_insert /\ a.ok_update)
                  => /\ ret.result = TRUE
                     /\ RecordAdded
                     /\ UsedCount(coupons, a.coupon_id)
                            = UsedCount(ret.pre.coupons, a.coupon_id) + 1

\* C25: the increment of use_coupon is a read then a write: a call whose
\* gateway steps succeed reads the coupon's used_count after it has
\* inserted the usage record and then writes the value read plus one (so
\* that two calls reading the same value leave two records and a count
\* grown by one).
C25_ReadThenWrite ==
    (UsedStoredCoupon /\ ret.args.ok_insert /\ ret.args.ok_update)
        => /\ Len(ret.calls) = 3
           /\ ret.calls[2] = "find_coupon"
           /\ ret.calls[3] = "edit_coupon"

\* C27: create_coupon called without a code makes at most 5 lookups,
\* inserts a coupon under the first generated code that no stored coupon
\* carries, returns None without inserting when all 5 generated codes are
\* stored, and never leaves two coupons with one code.
C27_CreateWithoutCode ==
    /\ \A i, j \in 1..Len(coupons) : coupons[i].code = coupons[j].code => i = j
    /\ (ret.fn = "create_coupon" /\ ret.args.code = {})
           => LET tried == FirstFresh(ret.args.generated, ret.pre)
              IN /\ Cardinality({i \in 1..Len(ret.calls) :
                                    ret.calls[i] = "find_coupon"}) <= MaxAttempts + 1
                 /\ tried = 0 => ret.result = {} /\ coupons = ret.pre
                 /\ (tried # 0 /\ ret.args.ok)
                        => /\ Len(coupons) = Len(ret.pre) + 1
                           /\ coupons[Len(coupons)].code = ret.args.generated[tried]
                           /\ ret.result # {}

\* a renewal callback of either step was handled for the held subscription
\* while the advanced method is set and the subscription is above both
\* thresholds
RefusableRenewal(p) ==
    /\ Done(p, "renewal_select") \/ Done(p, "renew")
    /\ fr[p].uuid = SubUuid
    /\ settings.renewal_method = 2
    /\ AboveThresholds

C26_CreditBeforeLedger ==
    ret.fn = "apply_commission" =>
        IF find_user(ret.args.referrer_id) = {} \/ ~ret.args.ok
        THEN /\ ret.result = FALSE
             /\ balance = ret.pre.balance
        ELSE /\ ret.result = TRUE
             /\ balance = ret.pre.balance + ret.args.amount

BothConfirmed(p, q) ==
    /\ p # q
    /\ Done(p, "buy") /\ fr[p].msg = "SUCCESSFUL_PURCHASE"
    /\ Done(q, "buy") /\ fr[q].msg = "SUCCESSFUL_PURCHASE"
    /\ fr[q].overlap
    /\ fr[p].pre_balance = fr[q].pre_balance
    /\ fr[p].pre_balance >= fr[p].plan_price
    /\ fr[p].pre_balance >= fr[q].plan_price
    /\ fr[p].pre_balance < fr[p].plan_price + fr[q].plan_price
    /\ Succeeded(fr[p], "create") /\ Succeeded(fr[q], "create")

================================================================
